---------------------------- MODULE Spec2Model ----------------------------
(***************************************************************************)
(* Model of src/main.py: the catalog synchronizer (sync_database), the     *)
(* products table it writes, the two search endpoints and the session      *)
(* cart.                                                                   *)
(*                                                                         *)
(* Text is a sequence of one-character strings, so that splitting,         *)
(* substring search and LIKE matching are computed and not assumed.  An    *)
(* optional value (Optional[str], a nullable column) is a sequence of      *)
(* length 0 (None / NULL) or 1 (the value).                                *)
(***************************************************************************)
EXTENDS Integers, Sequences, FiniteSets, Bags, TLC

(***************************************************************************)
(* Bounds of the model.                                                    *)
(***************************************************************************)
MaxSubcats == 2     \* longest all_subcategory_ids list the upstream tree yields

(***************************************************************************)
(* Program constants.                                                      *)
(***************************************************************************)
SemaphoreLimit == 5

None == <<>>
Some(v) == <<v>>

P1 == <<"1">>
P2 == <<"2">>
ProductIds == {P1, P2}
SubcatIds == {11, 12}
Runs == {1, 2}

(***************************************************************************)
(* The upstream API: what a GET can come back with.  err is a transport    *)
(* failure (httpx.RequestError: no response at all); otherwise status is   *)
(* the response's status code and body its content: None when it is not    *)
(* JSON, Some(document) when it is.                                        *)
(***************************************************************************)
TransportFailure == [err |-> TRUE, status |-> 0, body |-> None]
HttpResponse(status, body) == [err |-> FALSE, status |-> status, body |-> body]

\* The statuses the upstream answers with: found, not found, server error.
FailureResponses ==
    {TransportFailure, HttpResponse(404, None), HttpResponse(500, None),
     HttpResponse(200, None)}

\* The parts of a product JSON document the program reads.  ean, a required
\* field the upstream may omit, is optional in the document; rest_ok stands
\* for the other required parts (photos, details, price_instructions,
\* nutrition_information) being present and well-typed.
ProductJson(id, ean, name, thumb, price, url, rest_ok) ==
    [id |-> id, ean |-> ean, display_name |-> name, thumbnail |-> thumb,
     unit_price |-> price, share_url |-> url, rest_ok |-> rest_ok]

\* Two versions of each product's document, differing in every column but id,
\* the second with every optional column absent.
FullJson(pid) ==
    ProductJson(pid, Some(<<"8">> \o pid), <<"A", "b">> \o pid, Some(<<"t">>),
                Some(<<"2", ",", "5">>), Some(<<"u">>), TRUE)
BareJson(pid) ==
    ProductJson(pid, Some(<<"9">> \o pid), <<"b", "_">> \o pid, None, None, None, TRUE)
\* Well-formed JSON that is no ProductDetail: ean missing, or another
\* required part missing.
NoEanJson(pid) ==
    ProductJson(pid, None, <<"A", "b">> \o pid, Some(<<"t">>), None, None, TRUE)
NoPhotosJson(pid) ==
    ProductJson(pid, Some(<<"8">> \o pid), <<"A", "b">> \o pid, None, None, None, FALSE)

ValidJsons(pid) == {FullJson(pid), BareJson(pid)}

\* Every answer to GET /api/products/{pid}.
ProductResponses(pid) ==
    FailureResponses
    \cup {HttpResponse(200, Some(j)) :
            j \in ValidJsons(pid) \cup {NoEanJson(pid), NoPhotosJson(pid)}}

\* Sequences over S of length at most n.
SeqUpTo(S, n) == UNION {[1..k -> S] : k \in 0..n}

RECURSIVE Flatten(_)
\* [x for sub in lists for x in sub]
Flatten(lists) ==
    IF lists = <<>> THEN <<>> ELSE Head(lists) \o Flatten(Tail(lists))

\* A category JSON document: its nested subcategories, each with the ids of
\* the product stubs it embeds (an absent or null "products" is the empty
\* list); schema_ok is whether every required field of CategoryDetail and of
\* each stub is present and well-typed.
CategoryJson(schema_ok, categories) ==
    [schema_ok |-> schema_ok, categories |-> categories]

\* The lists of stubs one subcategory response embeds: as many stubs as
\* there are products, so that a list can repeat an id or name them all.
StubLists == SeqUpTo(ProductIds, Cardinality(ProductIds))

CategoryJsons ==
    {CategoryJson(TRUE, cs) :
        cs \in {c \in SeqUpTo(StubLists, 2) : Flatten(c) \in StubLists}}
    \cup {CategoryJson(FALSE, <<<<P1>>>>)}

\* Every answer to GET /api/categories/{cat_id}.
CategoryResponses ==
    FailureResponses \cup {HttpResponse(200, Some(j)) : j \in CategoryJsons}

\* The category tree document: the main categories, each with the ids of its
\* subcategories.
TreeJson(schema_ok, results) == [schema_ok |-> schema_ok, results |-> results]

TreeJsons ==
    {TreeJson(TRUE, rs) :
        rs \in {t \in SeqUpTo(SeqUpTo(SubcatIds, MaxSubcats), 2) :
                    Len(Flatten(t)) <= MaxSubcats}}
    \cup {TreeJson(FALSE, <<<<11>>>>)}

\* Every answer to GET /api/categories/.
TreeResponses ==
    FailureResponses \cup {HttpResponse(200, Some(j)) : j \in TreeJsons}

\* What the upstream did, whatever the program makes of it: a 2xx answer
\* whose body is a document of the expected shape.
GoodDocumentResponse(resp) ==
    /\ ~resp.err
    /\ resp.status \in 200..299
    /\ resp.body # None
    /\ resp.body[1].schema_ok

\* A 200 whose body is a product document with every required field.
GoodProductResponse(resp) ==
    /\ ~resp.err
    /\ resp.status = 200
    /\ resp.body # None
    /\ resp.body[1].ean # None
    /\ resp.body[1].rest_ok

(***************************************************************************)
(* Exceptions are values: a computation yields Ok(v) or Raise(class), and  *)
(* an except clause is the set of classes it catches.                      *)
(***************************************************************************)
Ok(v) == [exc |-> "", val |-> v]
Raise(class) == [exc |-> class, val |-> <<>>]

\* The classes raised in sync_database, all subclasses of Exception.
ExceptionSubclasses ==
    {"RequestError", "HTTPStatusError", "JSONDecodeError", "ValidationError",
     "sqlite3.Error"}

\* response.raise_for_status(): raises unless the status is 2xx.
raise_for_status(resp) ==
    IF resp.status >= 200 /\ resp.status < 300 THEN Ok(resp) ELSE Raise("HTTPStatusError")

(***************************************************************************)
(* The products table (create_database_and_table): a bag of rows of six    *)
(* columns, id the PRIMARY KEY.  A bag, so that a write that broke the key *)
(* would show as a second row and not vanish in a set.                     *)
(***************************************************************************)
Row(id, ean, name, thumb, price, url) ==
    [id |-> id, ean |-> ean, display_name |-> name, thumbnail |-> thumb,
     unit_price |-> price, share_url |-> url]

\* Every row deleted, whatever its id.
ConflictsDeleted_every_row(table, id) == EmptyBag

\* The rows of table whose id is not id.
ConflictsDeleted(table, id) ==
    [x \in {y \in DOMAIN table : y.id # id} |-> table[x]]

\* INSERT OR IGNORE: a row whose id the table holds is not written.
InsertOrReplace_or_ignore(table, row) ==
    IF \E x \in BagToSet(table) : x.id = row.id THEN table ELSE table (+) SetToBag({row})

\* A plain INSERT on a table with no key: the row is added, nothing replaced.
InsertOrReplace_plain_insert(table, row) == table (+) SetToBag({row})

\* An upsert that merges: a column that is NULL in the new row keeps the
\* value the old row had.
InsertOrReplace_keep_old_columns(table, row) ==
    LET old == {x \in BagToSet(table) : x.id = row.id}
        merged == IF old = {} THEN row
                  ELSE [c \in DOMAIN row |->
                           IF row[c] = None THEN (CHOOSE x \in old : TRUE)[c] ELSE row[c]]
    IN  ConflictsDeleted(table, row.id) (+) SetToBag({merged})

\* INSERT OR REPLACE INTO products VALUES (row): the rows the PRIMARY KEY
\* conflicts with are deleted, then the row is inserted.
InsertOrReplace(table, row) ==
    ConflictsDeleted(table, row.id) (+) SetToBag({row})

\* A bulk write that stops after its first tuple.
executemany_first_tuple_only(table, data_tuples) ==
    IF data_tuples = <<>> THEN table ELSE InsertOrReplace(table, Head(data_tuples))

RECURSIVE executemany(_, _)
\* cursor.executemany(INSERT OR REPLACE ..., data_tuples), in list order.
executemany(table, data_tuples) ==
    IF data_tuples = <<>> THEN table
    ELSE executemany(InsertOrReplace(table, Head(data_tuples)), Tail(data_tuples))

Ids(table) == {x.id : x \in BagToSet(table)}

\* A first request that fails read as an empty category tree.
TopLevelTry_empty_on_failure(resp) ==
    IF GoodDocumentResponse(resp) THEN Ok(Flatten(resp.body[1].results)) ELSE Ok(<<>>)

\* The table dropped and created again.
create_database_and_table_recreated(table) == EmptyBag

\* create_database_and_table: CREATE TABLE IF NOT EXISTS leaves the rows of
\* an existing table as they are.
create_database_and_table(table) == table

(***************************************************************************)
(* The code of sync_database between its suspension points.                *)
(***************************************************************************)
\* ApiResponseSimple(**response.json()) and the list of subcategory ids.
TopLevelTry(resp) ==
    IF resp.err THEN Raise("RequestError")
    ELSE IF raise_for_status(resp).exc # "" THEN raise_for_status(resp)
    ELSE IF resp.body = None THEN Raise("JSONDecodeError")
    ELSE IF ~resp.body[1].schema_ok THEN Raise("ValidationError")
    ELSE Ok(Flatten(resp.body[1].results))

\* The try block of fetch_product_list_from_category_with_progress.
CategoryTry(resp) ==
    IF resp.err THEN Raise("RequestError")
    ELSE IF raise_for_status(resp).exc # "" THEN raise_for_status(resp)
    ELSE IF resp.body = None THEN Raise("JSONDecodeError")
    ELSE IF ~resp.body[1].schema_ok THEN Raise("ValidationError")
    ELSE Ok(Flatten(resp.body[1].categories))

\* A task that catches transport errors only.
fetch_product_list_transport_only(resp) ==
    LET t == CategoryTry(resp)
    IN  IF t.exc = "RequestError" THEN Ok(<<>>) ELSE t

\* Its "except Exception: return []".
fetch_product_list_from_category_with_progress(resp) ==
    LET t == CategoryTry(resp)
    IN  IF t.exc \in ExceptionSubclasses THEN Ok(<<>>) ELSE t

\* ProductDetail(**res.json()): the required fields are there; the model
\* instance keeps the fields the program reads.
ProductDetailValid(json) ==
    json.ean # None /\ json.rest_ok

ProductDetail(json) ==
    [id |-> json.id, ean |-> json.ean[1], display_name |-> json.display_name,
     thumbnail |-> json.thumbnail, unit_price |-> json.unit_price,
     share_url |-> json.share_url]

\* The try block of fetch_details_with_progress.
DetailTry(resp) ==
    IF resp.err THEN Raise("RequestError")
    ELSE IF resp.status = 404 THEN Ok(None)
    ELSE IF raise_for_status(resp).exc # "" THEN raise_for_status(resp)
    ELSE IF resp.body = None THEN Raise("JSONDecodeError")
    ELSE IF ~ProductDetailValid(resp.body[1]) THEN Raise("ValidationError")
    ELSE Ok(Some(ProductDetail(resp.body[1])))

\* Its "except Exception: return None".
fetch_details_with_progress(resp) ==
    LET t == DetailTry(resp)
    IN  IF t.exc \in ExceptionSubclasses THEN Ok(None) ELSE t

\* An except clause that names the exceptions of httpx only.
SyncExcept_httpx_only(class) ==
    IF class \in {"RequestError", "HTTPStatusError"} THEN "failed" ELSE "raised"

\* The "except Exception" of sync_database: the run ends Failed when the
\* clause catches the exception, and the exception reaches the caller when it
\* does not.
SyncExcept(class) ==
    IF class \in ExceptionSubclasses THEN "failed" ELSE "raised"

\* A filter that looks at the first result only.
valid_products_first_only(order, detailed) ==
    IF order = <<>> THEN <<>>
    ELSE IF detailed[Head(order)] # None THEN <<detailed[Head(order)][1]>> ELSE <<>>

\* valid_products: the results that are not None, in the order of the ids.
RECURSIVE valid_products(_, _)
valid_products(order, detailed) ==
    IF order = <<>> THEN <<>>
    ELSE (IF detailed[Head(order)] # None THEN <<detailed[Head(order)][1]>> ELSE <<>>)
         \o valid_products(Tail(order), detailed)

\* data_tuples: one tuple of the six columns per valid product.
data_tuples(valid) ==
    [i \in 1..Len(valid) |->
        Row(valid[i].id, Some(valid[i].ean), Some(valid[i].display_name),
            valid[i].thumbnail, valid[i].unit_price, valid[i].share_url)]

\* The orders in which a set can be listed (list({...}) fixes none).
Orders(S) ==
    {o \in [1..Cardinality(S) -> S] : \A i, j \in 1..Cardinality(S) : o[i] = o[j] => i = j}

(***************************************************************************)
(* State.                                                                  *)
(***************************************************************************)
VARIABLES
    products,             \* the rows of the products table of mercadona.db
    pc,                   \* per run: idle, top, phase1, phase2, success, failed, raised
    semaphore,            \* per run: the free slots of asyncio.Semaphore(5)
    all_subcategory_ids,  \* per run: the subcategory ids, one Phase 1 task each
    tasks_f1,             \* per run: the Phase 1 tasks, by position
    unique_ids,           \* per run: the product ids of Phase 2
    tasks_f2,             \* per run: the Phase 2 tasks, by product id
    written,              \* per run: Some(data_tuples) once Phase 3 ran executemany
    start_rows,           \* per run: the rows of the table when the run started
    fault,                \* per run: what went wrong: "db", "top" (the upstream failed the
                          \* first request), "task" (a task raised), "persist", or ""
    cart,                 \* request.session["cart"]: product id -> quantity
    response,             \* the body of the last response a handler gave
    db_file,              \* DB_FILE on disk: "absent", "empty" (no byte) or "database"
    booted,               \* whether startup_event has run
    caller                \* per run: what called sync_database: "startup", "manual", ""

vars == <<products, pc, semaphore, all_subcategory_ids, tasks_f1, unique_ids,
          tasks_f2, written, start_rows, fault, cart, response, db_file, booted, caller>>

\* What the process and its database file are, and who called each run.
bootVars == <<db_file, booted, caller>>

\* What the request handlers of the web application hold.
webVars == <<cart, response>>

runVars == <<pc, semaphore, all_subcategory_ids, tasks_f1, unique_ids, tasks_f2,
             written, start_rows, fault>>

\* A fetch task: waiting for a slot, in its pacing sleep, in its GET, or
\* done with the value it returned.  good records what the upstream did:
\* whether its answer was a good one.
NewTask == [st |-> "wait", ret |-> <<>>, good |-> FALSE]

NoResponse == [kind |-> "none", query |-> <<>>, rows |-> {}]

(***************************************************************************)
(* sync_database, one action per stretch of code between two awaits.       *)
(***************************************************************************)
\* A semaphore with no check of its value: no task ever waits.
locked_never(value) == FALSE

\* asyncio.Semaphore.locked(): no slot is free, "async with semaphore" waits.
locked(value) == value = 0

\* A release that is skipped when the request failed in transport.
release_unless_transport_failure(value, resp) ==
    IF resp.err THEN value ELSE value + 1

\* A release that is made only after a 200.
release_on_200_only(value, resp) ==
    IF ~resp.err /\ resp.status = 200 THEN value + 1 ELSE value

\* The exit of "async with semaphore": the slot is given back whatever the
\* request resp came to and however the block was left.
release(value, resp) == value + 1

\* A wait that returns with the first task that completes.
gather_first_completed(tasks) ==
    \E k \in DOMAIN tasks : tasks[k].st = "done"

\* await asyncio.gather(*tasks) returns when every task has.
gather(tasks) ==
    \A k \in DOMAIN tasks : tasks[k].st = "done"

\* A connection in autocommit mode: what was executed stays.
close_without_commit_autocommit(executed, committed) == executed

\* The connection is dropped with its transaction open (an exception before
\* conn.commit()): the rows executed so far are rolled back.
close_without_commit(executed, committed) == committed

\* DB_FILE after create_database_and_table: sqlite3.connect creates the
\* file and CREATE TABLE writes its pages.
DB_FILE_created(file) == "database"

\* DB_FILE.stat().st_size: a database with the products table and its index
\* is three pages of 4096 bytes or more.
st_size(file) == IF file = "database" THEN 3 * 4096 ELSE 0

\* A run is started (startup_event or update_db_endpoint): it creates the
\* table if needed, which writes no row, builds the semaphore and the client
\* and issues GET /api/categories/.  db_ok is whether sqlite3 could open and
\* prepare the database.
StartSync(r, db_ok) ==
    /\ pc[r] = "idle"
    /\ semaphore' = [semaphore EXCEPT ![r] = SemaphoreLimit]
    /\ start_rows' = [start_rows EXCEPT ![r] = products]
    /\ IF db_ok
       THEN /\ products' = create_database_and_table(products)
            /\ db_file' = DB_FILE_created(db_file)
            /\ pc' = [pc EXCEPT ![r] = "top"]
            /\ fault' = [fault EXCEPT ![r] = ""]
       ELSE /\ products' = products
            /\ db_file' = db_file
            /\ pc' = [pc EXCEPT ![r] = SyncExcept("sqlite3.Error")]
            /\ fault' = [fault EXCEPT ![r] = "db"]
    /\ written' = [written EXCEPT ![r] = None]
    /\ UNCHANGED <<all_subcategory_ids, tasks_f1, unique_ids, tasks_f2, webVars>>

\* The answer to the top-level fetch arrives: lines 176-219 up to the gather.
TopLevelResponse(r, resp) ==
    /\ pc[r] = "top"
    /\ fault' = [fault EXCEPT ![r] = IF GoodDocumentResponse(resp) THEN "" ELSE "top"]
    /\ LET t == TopLevelTry(resp)
       IN  IF t.exc = ""
           THEN /\ all_subcategory_ids' = [all_subcategory_ids EXCEPT ![r] = t.val]
                /\ tasks_f1' = [tasks_f1 EXCEPT ![r] = [i \in 1..Len(t.val) |-> NewTask]]
                /\ pc' = [pc EXCEPT ![r] = "phase1"]
           ELSE /\ pc' = [pc EXCEPT ![r] = SyncExcept(t.exc)]
                /\ UNCHANGED <<all_subcategory_ids, tasks_f1>>
    /\ UNCHANGED <<products, semaphore, unique_ids, tasks_f2, written, start_rows, webVars, bootVars>>

\* "async with semaphore": a Phase 1 task takes a free slot and starts its
\* pacing sleep.
AcquireF1(r, i) ==
    /\ pc[r] = "phase1"
    /\ i \in DOMAIN tasks_f1[r]
    /\ tasks_f1[r][i].st = "wait"
    /\ ~locked(semaphore[r])
    /\ semaphore' = [semaphore EXCEPT ![r] = @ - 1]
    /\ tasks_f1' = [tasks_f1 EXCEPT ![r][i].st = "sleep"]
    /\ UNCHANGED <<products, pc, all_subcategory_ids, unique_ids, tasks_f2, written,
                   start_rows, fault, webVars, bootVars>>

\* The sleep ends and the task issues GET /api/categories/{cat_id}.
RequestF1(r, i) ==
    /\ pc[r] = "phase1"
    /\ i \in DOMAIN tasks_f1[r]
    /\ tasks_f1[r][i].st = "sleep"
    /\ tasks_f1' = [tasks_f1 EXCEPT ![r][i].st = "get"]
    /\ UNCHANGED <<products, pc, semaphore, all_subcategory_ids, unique_ids, tasks_f2,
                   written, start_rows, fault, webVars, bootVars>>

\* The answer arrives; the task returns and leaves the semaphore.  An
\* exception the task did not catch would reach the gather and, through it,
\* the except clause of sync_database.
ResponseF1(r, i, resp) ==
    /\ pc[r] = "phase1"
    /\ i \in DOMAIN tasks_f1[r]
    /\ tasks_f1[r][i].st = "get"
    /\ semaphore' = [semaphore EXCEPT ![r] = release(@, resp)]
    /\ LET t == fetch_product_list_from_category_with_progress(resp)
       IN  IF t.exc = ""
           THEN /\ tasks_f1' = [tasks_f1 EXCEPT ![r][i] =
                        [st |-> "done", ret |-> t.val, good |-> GoodDocumentResponse(resp)]]
                /\ UNCHANGED <<pc, fault>>
           ELSE /\ tasks_f1' = [tasks_f1 EXCEPT ![r][i].st = "done"]
                /\ pc' = [pc EXCEPT ![r] = SyncExcept(t.exc)]
                /\ fault' = [fault EXCEPT ![r] = "task"]
    /\ UNCHANGED <<products, all_subcategory_ids, unique_ids, tasks_f2, written,
                   start_rows, webVars, bootVars>>

\* A flattening that reads the list of the first task only.
all_products_stubs_first_task(r) ==
    IF tasks_f1[r] = <<>> THEN <<>> ELSE tasks_f1[r][1].ret

\* all_products_stubs: the stubs of every task, flattened.
all_products_stubs(r) ==
    Flatten([i \in DOMAIN tasks_f1[r] |-> tasks_f1[r][i].ret])

\* The Phase 1 gather returns: lines 219-256 up to the second gather.  The
\* Phase 1 lists are not read again.
Phase1Done(r) ==
    /\ pc[r] = "phase1"
    /\ gather(tasks_f1[r])
    /\ LET stubs == all_products_stubs(r)
           ids == {stubs[k] : k \in DOMAIN stubs}
       IN  /\ unique_ids' = [unique_ids EXCEPT ![r] = ids]
           /\ tasks_f2' = [tasks_f2 EXCEPT ![r] = [pid \in ids |-> NewTask]]
    /\ pc' = [pc EXCEPT ![r] = "phase2"]
    /\ all_subcategory_ids' = [all_subcategory_ids EXCEPT ![r] = <<>>]
    /\ tasks_f1' = [tasks_f1 EXCEPT ![r] = <<>>]
    /\ UNCHANGED <<products, semaphore, written, start_rows, fault, webVars, bootVars>>

\* A Phase 2 task takes a free slot of the same semaphore.
AcquireF2(r, pid) ==
    /\ pc[r] = "phase2"
    /\ pid \in DOMAIN tasks_f2[r]
    /\ tasks_f2[r][pid].st = "wait"
    /\ ~locked(semaphore[r])
    /\ semaphore' = [semaphore EXCEPT ![r] = @ - 1]
    /\ tasks_f2' = [tasks_f2 EXCEPT ![r][pid].st = "sleep"]
    /\ UNCHANGED <<products, pc, all_subcategory_ids, tasks_f1, unique_ids, written,
                   start_rows, fault, webVars, bootVars>>

\* The sleep ends and the task issues GET /api/products/{pid}.
RequestF2(r, pid) ==
    /\ pc[r] = "phase2"
    /\ pid \in DOMAIN tasks_f2[r]
    /\ tasks_f2[r][pid].st = "sleep"
    /\ tasks_f2' = [tasks_f2 EXCEPT ![r][pid].st = "get"]
    /\ UNCHANGED <<products, pc, semaphore, all_subcategory_ids, tasks_f1, unique_ids,
                   written, start_rows, fault, webVars, bootVars>>

\* The answer arrives; the task returns and leaves the semaphore.
ResponseF2(r, pid, resp) ==
    /\ pc[r] = "phase2"
    /\ pid \in DOMAIN tasks_f2[r]
    /\ tasks_f2[r][pid].st = "get"
    /\ semaphore' = [semaphore EXCEPT ![r] = release(@, resp)]
    /\ LET t == fetch_details_with_progress(resp)
       IN  IF t.exc = ""
           THEN /\ tasks_f2' = [tasks_f2 EXCEPT ![r][pid] =
                        [st |-> "done", ret |-> t.val, good |-> GoodProductResponse(resp)]]
                /\ UNCHANGED <<pc, fault>>
           ELSE /\ tasks_f2' = [tasks_f2 EXCEPT ![r][pid].st = "done"]
                /\ pc' = [pc EXCEPT ![r] = SyncExcept(t.exc)]
                /\ fault' = [fault EXCEPT ![r] = "task"]
    /\ UNCHANGED <<products, all_subcategory_ids, tasks_f1, unique_ids, written,
                   start_rows, webVars, bootVars>>

\* detailed_products, by product id.
detailed_products(r) == [pid \in DOMAIN tasks_f2[r] |-> tasks_f2[r][pid].ret]

\* The Phase 2 gather returns: lines 256-278, which hold no await.  order is
\* the order list({...}) gave unique_ids; persist_ok is whether sqlite3 could
\* connect, execute and commit.  A write that fails has executed some n of
\* the tuples inside the transaction executemany opened; it commits nothing,
\* and its exception goes to the except clause of sync_database.
Phase3(r, order, persist_ok) ==
    /\ pc[r] = "phase2"
    /\ gather(tasks_f2[r])
    /\ order \in Orders(unique_ids[r])
    /\ LET batch == data_tuples(valid_products(order, detailed_products(r)))
       IN  /\ written' = [written EXCEPT ![r] = Some(batch)]
           /\ IF persist_ok
              THEN /\ products' = executemany(products, batch)
                   /\ pc' = [pc EXCEPT ![r] = "success"]
                   /\ UNCHANGED fault
              ELSE /\ pc' = [pc EXCEPT ![r] = SyncExcept("sqlite3.Error")]
                   /\ fault' = [fault EXCEPT ![r] = "persist"]
                   /\ \E n \in 0..Len(batch) :
                        products' = close_without_commit(
                                        executemany(products, SubSeq(batch, 1, n)), products)
    /\ UNCHANGED <<semaphore, all_subcategory_ids, tasks_f1, unique_ids, tasks_f2,
                   start_rows, webVars, bootVars>>

\* sync_database returns to its caller; its locals are gone.
ReturnSync(r) ==
    /\ pc[r] \in {"success", "failed"}
    /\ pc' = [pc EXCEPT ![r] = "idle"]
    /\ semaphore' = [semaphore EXCEPT ![r] = SemaphoreLimit]
    /\ all_subcategory_ids' = [all_subcategory_ids EXCEPT ![r] = <<>>]
    /\ tasks_f1' = [tasks_f1 EXCEPT ![r] = <<>>]
    /\ unique_ids' = [unique_ids EXCEPT ![r] = {}]
    /\ tasks_f2' = [tasks_f2 EXCEPT ![r] = <<>>]
    /\ written' = [written EXCEPT ![r] = None]
    /\ start_rows' = [start_rows EXCEPT ![r] = EmptyBag]
    /\ fault' = [fault EXCEPT ![r] = ""]
    /\ caller' = [caller EXCEPT ![r] = ""]
    /\ UNCHANGED <<products, webVars, db_file, booted>>

\* GET /actualizar-db: sync_database is run as a background task.
update_db_endpoint(r, db_ok) ==
    /\ booted
    /\ StartSync(r, db_ok)
    /\ caller' = [caller EXCEPT ![r] = "manual"]
    /\ UNCHANGED booted

\* startup_event: the table is created, and sync_database is awaited if
\* DB_FILE then has no byte.  (If creating the table raises, the
\* application does not start.)
startup_event(r, db_ok) ==
    /\ ~booted
    /\ booted' = TRUE
    /\ IF ~(st_size(DB_FILE_created(db_file)) > 0)
       THEN /\ StartSync(r, db_ok)
            /\ caller' = [caller EXCEPT ![r] = "startup"]
       ELSE /\ db_file' = DB_FILE_created(db_file)
            /\ products' = create_database_and_table(products)
            /\ UNCHANGED <<runVars, webVars, caller>>

(***************************************************************************)
(* Search: search_products (HTML) and search_products_api (JSON) run the   *)
(* same query.                                                             *)
(***************************************************************************)
Whitespace == {" "}

\* The characters a query is typed from: letters in both cases, the digits
\* the ids and eans are made of, the two characters LIKE reads as wildcards,
\* and the blank.
QueryChars == {"a", "A", "b", "1", "8", "%", "_", " "}

RECURSIVE SplitFrom(_, _)
\* The words of text after the word being read, current.
SplitFrom(text, current) ==
    IF text = <<>>
    THEN (IF current = <<>> THEN <<>> ELSE <<current>>)
    ELSE IF Head(text) \in Whitespace
         THEN (IF current = <<>> THEN <<>> ELSE <<current>>) \o SplitFrom(Tail(text), <<>>)
         ELSE SplitFrom(Tail(text), Append(current, Head(text)))

\* query.strip().split(): the maximal runs of non-whitespace characters.
search_words(query) == SplitFrom(query, <<>>)

\* SQLite folds the case of ASCII letters only.
Lower(c) ==
    CASE c = "A" -> "a"
      [] c = "B" -> "b"
      [] OTHER -> c

RECURSIVE Like(_, _)
\* text LIKE pattern, as SQLite evaluates it with no ESCAPE clause: % stands
\* for any run of characters, _ for any one character, and letters match
\* whatever their case.
Like(pattern, text) ==
    IF pattern = <<>> THEN text = <<>>
    ELSE IF Head(pattern) = "%"
         THEN \/ Like(Tail(pattern), text)
              \/ text # <<>> /\ Like(pattern, Tail(text))
         ELSE /\ text # <<>>
              /\ Head(pattern) = "_" \/ Lower(Head(pattern)) = Lower(Head(text))
              /\ Like(Tail(pattern), Tail(text))

\* f"%{word}%"
name_param(word) == <<"%">> \o word \o <<"%">>

\* column LIKE ? on a nullable column: NULL is not selected.
ColumnLike(column, pattern) == column # None /\ Like(pattern, column[1])

\* A query with no "ean = ?" branch: rows are found by name or id only.
SelectWhere_name_or_id(table, words, query) ==
    {x \in BagToSet(table) :
        \/ \A k \in DOMAIN words : ColumnLike(x.display_name, name_param(words[k]))
        \/ x.id = query}

\* SELECT * FROM products WHERE (display_name LIKE ? AND ...) OR ean = ? OR id = ?
\* with params = name_params + [query, query].
SelectWhere(table, words, query) ==
    {x \in BagToSet(table) :
        \/ \A k \in DOMAIN words : ColumnLike(x.display_name, name_param(words[k]))
        \/ x.ean = Some(query)
        \/ x.id = query}

\* The rows both search handlers return: none unless the query has a word.
search_rows(table, query) ==
    IF search_words(query) # <<>>
    THEN SelectWhere(table, search_words(query), query)
    ELSE {}

SearchResponse(kind, query, rows) == [kind |-> kind, query |-> query, rows |-> rows]

\* GET /buscar?query=...
search_products(query) ==
    /\ response' = SearchResponse("buscar", query, search_rows(products, query))
    /\ UNCHANGED <<bootVars, products, runVars, cart>>

\* GET /api/v1/buscar?query=...
search_products_api(query) ==
    /\ response' = SearchResponse("api_buscar", query, search_rows(products, query))
    /\ UNCHANGED <<bootVars, products, runVars, cart>>

(***************************************************************************)
(* The session cart.                                                       *)
(***************************************************************************)
\* RedirectResponse(url="/carrito", status_code=303)
RedirectResponse == [kind |-> "redirect", query |-> <<>>, rows |-> {}]

\* cart[product_id] = quantity
SetItem(c, pid, quantity) ==
    [k \in DOMAIN c \cup {pid} |-> IF k = pid THEN quantity ELSE c[k]]

\* A deletion that empties the dictionary.
DelItem_clear_all(c, pid) == <<>>

\* del cart[product_id]
DelItem(c, pid) == [k \in DOMAIN c \ {pid} |-> c[k]]

\* The dictionary add_to_cart leaves in the session.
cart_after_add(c, pid, quantity) ==
    IF pid \in DOMAIN c
    THEN SetItem(c, pid, c[pid] + quantity)
    ELSE SetItem(c, pid, quantity)

\* The dictionary update_cart leaves in the session.
cart_after_update(c, pid, quantity, action) ==
    IF action = "delete"
    THEN (IF pid \in DOMAIN c THEN DelItem(c, pid) ELSE c)
    ELSE IF action = "update"
         THEN (IF pid \in DOMAIN c
               THEN (IF quantity > 0 THEN SetItem(c, pid, quantity) ELSE DelItem(c, pid))
               ELSE c)
         ELSE c

\* POST /cart/add
add_to_cart(pid, quantity) ==
    /\ cart' = cart_after_add(cart, pid, quantity)
    /\ response' = RedirectResponse
    /\ UNCHANGED <<bootVars, products, runVars>>

\* POST /cart/update
update_cart(pid, quantity, action) ==
    /\ cart' = cart_after_update(cart, pid, quantity, action)
    /\ response' = RedirectResponse
    /\ UNCHANGED <<bootVars, products, runVars>>

\* SELECT * FROM products WHERE id = ?, fetchone(): a row, or None.
fetchone(table, pid) ==
    IF \E x \in BagToSet(table) : x.id = pid
    THEN Some(CHOOSE x \in BagToSet(table) : x.id = pid)
    ELSE None

\* A float of the cart view, as sign and magnitude in cents: the sign is
\* kept because 0.0 * -1 is -0.0, which prints as "-0.00".  The prices
\* modelled have at most two decimals, so cents are exact.
Float(neg, cents) == [neg |-> neg, cents |-> cents]

DigitChars == <<"0", "1", "2", "3", "4", "5", "6", "7", "8", "9">>
IsDigit(c) == \E k \in DOMAIN DigitChars : DigitChars[k] = c
DigitValue(c) == (CHOOSE k \in DOMAIN DigitChars : DigitChars[k] = c) - 1

\* str.replace(old, new) for a one-character old; new is a text.
RECURSIVE replace(_, _, _)
replace(text, old, new) ==
    IF text = <<>> THEN <<>>
    ELSE (IF Head(text) = old THEN new ELSE <<Head(text)>>) \o replace(Tail(text), old, new)

\* str.strip(): the whitespace at both ends removed.
RECURSIVE lstrip(_)
lstrip(text) ==
    IF text # <<>> /\ Head(text) \in Whitespace THEN lstrip(Tail(text)) ELSE text
RECURSIVE rstrip(_)
rstrip(text) ==
    IF text # <<>> /\ text[Len(text)] \in Whitespace
    THEN rstrip(SubSeq(text, 1, Len(text) - 1))
    ELSE text
strip(text) == rstrip(lstrip(text))

\* The number a run of digits writes.
RECURSIVE int(_)
int(digits) ==
    IF digits = <<>> THEN 0
    ELSE 10 * int(SubSeq(digits, 1, Len(digits) - 1)) + DigitValue(digits[Len(digits)])

\* float(text) for the unsigned decimal literals: digits, at most one point,
\* at least one digit (up to two after the point here); anything else raises
\* ValueError.
float(text) ==
    LET points == {k \in DOMAIN text : text[k] = "."}
        whole == IF points = {} THEN text
                 ELSE SubSeq(text, 1, (CHOOSE k \in points : TRUE) - 1)
        frac == IF points = {} THEN <<>>
                ELSE SubSeq(text, (CHOOSE k \in points : TRUE) + 1, Len(text))
    IN  IF /\ Cardinality(points) <= 1
           /\ \A k \in DOMAIN text : IsDigit(text[k]) \/ text[k] = "."
           /\ Len(whole) + Len(frac) >= 1
        THEN Ok(Float(FALSE, 100 * int(whole) + int(SubSeq(frac \o <<"0", "0">>, 1, 2))))
        ELSE Raise("ValueError")

\* A parse_price that does not turn the decimal comma into a point.
parse_price_comma_kept(price_str) ==
    IF price_str = None \/ price_str = Some(<<>>) THEN Float(FALSE, 0)
    ELSE LET clean_str == strip(replace(price_str[1], "€", <<>>))
         IN  IF float(clean_str).exc = "" THEN float(clean_str).val ELSE Float(FALSE, 0)

\* parse_price: 0.0 for a missing or empty price; else the euro sign
\* removed, the comma made a point, the ends stripped, and float(); 0.0 on
\* ValueError.
parse_price(price_str) ==
    IF price_str = None \/ price_str = Some(<<>>) THEN Float(FALSE, 0)
    ELSE LET clean_str == strip(replace(replace(price_str[1], "€", <<>>), ",", <<".">>))
         IN  IF float(clean_str).exc = "" THEN float(clean_str).val ELSE Float(FALSE, 0)

\* price_float * quantity
FloatTimes(x, quantity) ==
    Float(x.neg # (quantity < 0),
          x.cents * (IF quantity < 0 THEN -quantity ELSE quantity))

\* The float a number of cents is; a zero that comes out of a sum is +0.0.
FloatOfCents(n) == Float(n < 0, IF n < 0 THEN -n ELSE n)
CentsOf(x) == IF x.neg THEN -x.cents ELSE x.cents

\* The decimal digits of a natural number.
RECURSIVE NatText(_)
NatText(n) ==
    IF n < 10 THEN <<DigitChars[n + 1]>>
    ELSE NatText(n \div 10) \o <<DigitChars[(n % 10) + 1]>>

\* f"{x:.2f}"
Format2f(x) ==
    (IF x.neg THEN <<"-">> ELSE <<>>) \o NatText(x.cents \div 100) \o <<".">>
      \o <<DigitChars[((x.cents % 100) \div 10) + 1], DigitChars[(x.cents % 10) + 1]>>

\* The entries of the cart whose product the table holds.
found(c, table) == {k \in DOMAIN c : fetchone(table, k) # None}

\* cart_items: one item per cart entry whose product is in the table, with
\* the subtotal formatted for display.
cart_items(c, table) ==
    {[id |-> fetchone(table, pid)[1].id,
      display_name |-> fetchone(table, pid)[1].display_name,
      thumbnail |-> fetchone(table, pid)[1].thumbnail,
      unit_price |-> fetchone(table, pid)[1].unit_price,
      quantity |-> c[pid],
      subtotal |-> Format2f(FloatTimes(parse_price(fetchone(table, pid)[1].unit_price), c[pid]))
                     \o <<" ", "€">>] : pid \in found(c, table)}

\* total_price: 0.0 plus the subtotal of every item, in the order of the
\* dictionary.
RECURSIVE total_price(_, _, _)
total_price(c, table, pids) ==
    IF pids = {} THEN 0
    ELSE LET pid == CHOOSE k \in pids : TRUE
         IN  CentsOf(FloatTimes(parse_price(fetchone(table, pid)[1].unit_price), c[pid]))
               + total_price(c, table, pids \ {pid})

\* GET /carrito
view_cart ==
    /\ response' = [kind |-> "carrito", query |-> <<>>, rows |-> cart_items(cart, products),
                    total |-> Format2f(FloatOfCents(total_price(cart, products,
                                                               found(cart, products))))]
    /\ UNCHANGED <<bootVars, products, runVars>>
    /\ UNCHANGED cart

(***************************************************************************)
(* The single-entity handlers: one upstream request each, outside          *)
(* sync_database.  An HTTPException carries its status code.               *)
(***************************************************************************)
HTTPException(status_code) == [exc |-> "HTTPException", val |-> status_code]

\* sum(cart.values())
RECURSIVE cart_count(_)
cart_count(c) ==
    IF DOMAIN c = {} THEN 0
    ELSE LET k == CHOOSE k \in DOMAIN c : TRUE
         IN  c[k] + cart_count([j \in DOMAIN c \ {k} |-> c[j]])

\* CategoryDetail(**data)
CategoryDetailValid(json) == json.schema_ok

\* The try block of read_product and read_category: valid is whether the
\* document passes the model of the page.
PageTry(resp, valid) ==
    IF resp.err THEN Raise("RequestError")
    ELSE IF resp.status = 404 THEN HTTPException(404)
    ELSE IF raise_for_status(resp).exc # "" THEN raise_for_status(resp)
    ELSE IF resp.body = None THEN Raise("JSONDecodeError")
    ELSE IF ~valid THEN Raise("ValidationError")
    ELSE Ok(resp.body[1])

\* Their except clauses: "except httpx.RequestError" and then "except
\* Exception", which HTTPException is a subclass of; both raise
\* HTTPException(500).
PageExcept(t) ==
    IF t.exc = "" THEN t
    ELSE IF t.exc = "RequestError" THEN HTTPException(500)
    ELSE IF t.exc \in ExceptionSubclasses \cup {"HTTPException"} THEN HTTPException(500)
    ELSE t

\* The try block of get_product_details and get_category_products: the
\* document is returned as it came.
JsonTry(resp) ==
    IF resp.err THEN Raise("RequestError")
    ELSE IF resp.status = 404 THEN HTTPException(404)
    ELSE IF raise_for_status(resp).exc # "" THEN raise_for_status(resp)
    ELSE IF resp.body = None THEN Raise("JSONDecodeError")
    ELSE Ok(resp.body[1])

\* Their only except clause, "except httpx.RequestError".
JsonExcept(t) ==
    IF t.exc = "RequestError" THEN HTTPException(500) ELSE t

\* The status FastAPI answers with: 200 for a returned value, the status of
\* an HTTPException, 500 for any other exception.
status_code(t) ==
    IF t.exc = "" THEN 200
    ELSE IF t.exc = "HTTPException" THEN t.val
    ELSE 500

\* The response of a single-entity handler; upstream is the answer it was
\* given, count the cart_count a rendered page shows.
EntityResponse(kind, upstream, t, count) ==
    [kind |-> kind, query |-> <<>>, rows |-> {}, upstream |-> upstream,
     status_code |-> status_code(t), cart_count |-> IF t.exc = "" THEN count ELSE 0]

\* GET /products/{product_id}
read_product(product_id, resp) ==
    /\ response' = EntityResponse("read_product", resp,
                        PageExcept(PageTry(resp, resp.body # None
                                                   /\ ProductDetailValid(resp.body[1]))),
                        cart_count(cart))
    /\ UNCHANGED <<bootVars, products, runVars, cart>>

\* GET /categories/{category_id}/
read_category(category_id, resp) ==
    /\ response' = EntityResponse("read_category", resp,
                        PageExcept(PageTry(resp, resp.body # None
                                                   /\ CategoryDetailValid(resp.body[1]))),
                        cart_count(cart))
    /\ UNCHANGED <<bootVars, products, runVars, cart>>

\* GET /api/v1/products/{product_id}
get_product_details(product_id, resp) ==
    /\ response' = EntityResponse("get_product_details", resp, JsonExcept(JsonTry(resp)), 0)
    /\ UNCHANGED <<bootVars, products, runVars, cart>>

\* GET /api/v1/categories/{category_id}
get_category_products(category_id, resp) ==
    /\ response' = EntityResponse("get_category_products", resp, JsonExcept(JsonTry(resp)), 0)
    /\ UNCHANGED <<bootVars, products, runVars, cart>>

(***************************************************************************)
(* Specifications.  The actions take their inputs as parameters; each      *)
(* specification says which inputs its environment supplies.               *)
(***************************************************************************)
MaxQty == 2         \* largest quantity, in absolute value, a cart entry reaches

InitWith(tables) ==
    /\ products \in tables
    /\ pc = [r \in Runs |-> "idle"]
    /\ semaphore = [r \in Runs |-> SemaphoreLimit]
    /\ all_subcategory_ids = [r \in Runs |-> <<>>]
    /\ tasks_f1 = [r \in Runs |-> <<>>]
    /\ unique_ids = [r \in Runs |-> {}]
    /\ tasks_f2 = [r \in Runs |-> <<>>]
    /\ written = [r \in Runs |-> None]
    /\ start_rows = [r \in Runs |-> EmptyBag]
    /\ fault = [r \in Runs |-> ""]
    /\ cart = <<>>
    /\ response = NoResponse
    /\ db_file = "database"
    /\ booted = TRUE
    /\ caller = [r \in Runs |-> ""]

\* A fresh deployment: no row yet.
Init == InitWith({EmptyBag})

\* The steps of a run that was started.
RunStep(r, trees, categories, details) ==
    \/ \E resp \in trees : TopLevelResponse(r, resp)
    \/ \E i \in DOMAIN tasks_f1[r] : AcquireF1(r, i)
    \/ \E i \in DOMAIN tasks_f1[r] : RequestF1(r, i)
    \/ \E i \in DOMAIN tasks_f1[r], resp \in categories : ResponseF1(r, i, resp)
    \/ Phase1Done(r)
    \/ \E pid \in DOMAIN tasks_f2[r] : AcquireF2(r, pid)
    \/ \E pid \in DOMAIN tasks_f2[r] : RequestF2(r, pid)
    \/ \E pid \in DOMAIN tasks_f2[r] :
         \E resp \in ProductResponses(pid) \cap details : ResponseF2(r, pid, resp)
    \/ /\ pc[r] = "phase2" /\ gather(tasks_f2[r])
       /\ \E order \in Orders(unique_ids[r]), persist_ok \in BOOLEAN :
            Phase3(r, order, persist_ok)
    \/ ReturnSync(r)

\* One run of sync_database against the upstream answers given, from its
\* manual trigger to its return.
SyncStep(r, trees, categories, details) ==
    \/ \E db_ok \in BOOLEAN : update_db_endpoint(r, db_ok)
    \/ RunStep(r, trees, categories, details)

AllProductResponses == UNION {ProductResponses(pid) : pid \in ProductIds}

\* The synchronizer alone: runs of sync_database, one after the other,
\* against every answer of the upstream.
NextSync == SyncStep(1, TreeResponses, CategoryResponses, AllProductResponses)

SpecSync == Init /\ [][NextSync]_vars

\* The whole application: runs of sync_database, one after the other,
\* against a small upstream (every failure of the first request; one
\* subcategory, failing or naming one product or both; for each product a
\* not-found and both versions), the searches and the cart of one session.
AppTrees ==
    FailureResponses
    \cup {HttpResponse(200, Some(TreeJson(ok, <<<<11>>>>))) : ok \in BOOLEAN}
AppCategories ==
    {HttpResponse(500, None),
     HttpResponse(200, Some(CategoryJson(TRUE, <<<<P1>>>>))),
     HttpResponse(200, Some(CategoryJson(TRUE, <<<<P1>>, <<P2, P1>>>>)))}
AppDetails ==
    {HttpResponse(404, None)}
    \cup {HttpResponse(200, Some(j)) : j \in UNION {ValidJsons(pid) : pid \in ProductIds}}
AppQueries == {<<"b">>, <<"8", "1">>}

CartBounded(c) == \A k \in DOMAIN c : c[k] >= -MaxQty /\ c[k] <= MaxQty

\* The client of the session sends one request at a time: a handler runs
\* when the last response has been sent.
SendResponse ==
    /\ response # NoResponse
    /\ response' = NoResponse
    /\ UNCHANGED <<bootVars, products, runVars, cart>>

Idle == response = NoResponse

CartStep(pids, quantities, acts) ==
    \/ \E pid \in pids, q \in quantities :
         Idle /\ add_to_cart(pid, q) /\ CartBounded(cart')
    \/ \E pid \in pids, q \in quantities, action \in acts :
         Idle /\ update_cart(pid, q, action)
    \/ Idle /\ view_cart

SearchStep(queries) ==
    \/ \E query \in queries : Idle /\ search_products(query)
    \/ \E query \in queries : Idle /\ search_products_api(query)

Next ==
    \/ SyncStep(1, AppTrees, AppCategories, AppDetails)
    \/ SearchStep(AppQueries)
    \/ CartStep({P1}, {0, 1}, {"update", "delete"})
    \/ SendResponse

Spec == Init /\ [][Next]_vars

\* The table on its own: any table the key allows, written by any batch.
StoreRows ==
    {data_tuples(<<ProductDetail(j)>>)[1] : j \in UNION {ValidJsons(pid) : pid \in ProductIds}}

StoreTables ==
    {SetToBag(S) : S \in {T \in SUBSET StoreRows : \A x, y \in T : x.id = y.id => x = y}}

MaxBatch == 2       \* longest batch written

\* Lines 262-276 on their own: the batch is written and committed.
BulkWrite(r, batch) ==
    /\ start_rows' = [start_rows EXCEPT ![r] = products]
    /\ written' = [written EXCEPT ![r] = Some(batch)]
    /\ products' = executemany(products, batch)
    /\ UNCHANGED <<pc, semaphore, all_subcategory_ids, tasks_f1, unique_ids, tasks_f2,
                   fault, webVars, bootVars>>

NextStore == \E batch \in SeqUpTo(StoreRows, MaxBatch) : BulkWrite(1, batch)

SpecStore == InitWith(StoreTables) /\ [][NextStore]_vars

\* The searches on their own: any table a sync can leave, any query.
MaxQueryLen == 3    \* longest query typed

NextSearch == SearchStep(SeqUpTo(QueryChars, MaxQueryLen)) \/ SendResponse

SpecSearch == InitWith(StoreTables) /\ [][NextSearch]_vars

\* The cart on its own: any table a sync can leave, any cart operation.
NextCart == CartStep(ProductIds, -1..MaxQty, {"update", "delete", "other"}) \/ SendResponse

SpecCart == InitWith(StoreTables) /\ [][NextCart]_vars

\* The cart view over priced rows: the unit_price texts a row can hold
\* (missing, empty, with a decimal comma, with the euro sign, with a point,
\* not a number, two separators, no whole part).
PriceTexts ==
    {None, Some(<<>>), Some(<<"2", ",", "5">>), Some(<<"2", ",", "5", "0", " ", "€">>),
     Some(<<"0", ".", "0", "5">>), Some(<<"x">>), Some(<<"2", ",", "5", ",", "0">>),
     Some(<<",", "5">>)}

PricedRows ==
    {Row(pid, Some(<<"8">> \o pid), Some(<<"A", "b">> \o pid), None, price, None) :
        pid \in ProductIds, price \in PriceTexts}

PricedTables ==
    {SetToBag(S) : S \in {T \in SUBSET PricedRows : \A x, y \in T : x.id = y.id => x = y}}

SpecCartView == InitWith(PricedTables) /\ [][NextCart]_vars

\* The process from its start: DB_FILE absent, without a byte, or a
\* database with or without rows; then startup_event, manual triggers and the
\* runs they start.
InitBoot ==
    /\ db_file \in {"absent", "empty", "database"}
    /\ products \in (IF db_file = "database" THEN StoreTables ELSE {EmptyBag})
    /\ booted = FALSE
    /\ pc = [r \in Runs |-> "idle"]
    /\ semaphore = [r \in Runs |-> SemaphoreLimit]
    /\ all_subcategory_ids = [r \in Runs |-> <<>>]
    /\ tasks_f1 = [r \in Runs |-> <<>>]
    /\ unique_ids = [r \in Runs |-> {}]
    /\ tasks_f2 = [r \in Runs |-> <<>>]
    /\ written = [r \in Runs |-> None]
    /\ start_rows = [r \in Runs |-> EmptyBag]
    /\ fault = [r \in Runs |-> ""]
    /\ cart = <<>>
    /\ response = NoResponse
    /\ caller = [r \in Runs |-> ""]

NextBoot ==
    \/ \E db_ok \in BOOLEAN : startup_event(1, db_ok)
    \/ SyncStep(1, AppTrees, AppCategories, AppDetails)

SpecBoot == InitBoot /\ [][NextBoot]_vars

\* The single-entity handlers on their own, with the cart whose count the
\* pages show: every answer of the upstream to each request.
NextPages ==
    \/ \E pid \in ProductIds : \E resp \in ProductResponses(pid) :
         Idle /\ read_product(pid, resp)
    \/ \E cat_id \in SubcatIds, resp \in CategoryResponses :
         Idle /\ read_category(cat_id, resp)
    \/ \E pid \in ProductIds : \E resp \in ProductResponses(pid) :
         Idle /\ get_product_details(pid, resp)
    \/ \E cat_id \in SubcatIds, resp \in CategoryResponses :
         Idle /\ get_category_products(cat_id, resp)
    \/ CartStep({P1}, {1}, {"delete"})
    \/ SendResponse

SpecPages == Init /\ [][NextPages]_vars

\* Two runs at once: a second manual trigger arrives while the run of the
\* first is in flight.  Each run finds enough subcategories for the two
\* together to have more requests than one semaphore has slots; a
\* subcategory is not found or names one product, which is not found.
OverlapSubcats == [i \in 1..((SemaphoreLimit + 2) \div 2) |-> 10 + i]
OverlapTrees == {HttpResponse(200, Some(TreeJson(TRUE, <<OverlapSubcats>>)))}
OverlapCategories ==
    {HttpResponse(404, None), HttpResponse(200, Some(CategoryJson(TRUE, <<<<P1>>>>)))}
OverlapDetails == {HttpResponse(404, None)}

NextOverlap ==
    \E r \in Runs : SyncStep(r, OverlapTrees, OverlapCategories, OverlapDetails)

SpecOverlap == Init /\ [][NextOverlap]_vars

\* The governor at work: one run at a time whose tree has one subcategory
\* more than the semaphore has slots, and whose subcategories, when they
\* answer, name one product more than it has slots.  A subcategory request
\* fails or succeeds; a product is not found or fails in transport, so that
\* every run starts over the same table.
GovTasks == SemaphoreLimit + 1
GovSubcats == [i \in 1..GovTasks |-> 10 + i]
GovProductIds == [i \in 1..GovTasks |-> <<DigitChars[i + 1]>>]
GovTrees ==
    {HttpResponse(500, None), HttpResponse(200, Some(TreeJson(TRUE, <<GovSubcats>>)))}
GovCategories ==
    {HttpResponse(500, None), TransportFailure,
     HttpResponse(200, Some(CategoryJson(TRUE, <<GovProductIds>>)))}
GovDetails == {HttpResponse(404, None), TransportFailure}

NextGovernor == SyncStep(1, GovTrees, GovCategories, GovDetails)

SpecGovernor == Init /\ [][NextGovernor]_vars

\* The event loop runs a task that is ready, and every request is answered
\* or fails within its timeout (timeout=30.0): a run that can take a step
\* takes one.  A trigger is never owed.
FairSpecGovernor ==
    SpecGovernor /\ WF_vars(RunStep(1, GovTrees, GovCategories, GovDetails))

\* Two manual triggers, the second whenever it comes: both runs find one
\* subcategory, which names product 1 or both products; a product is not
\* found or is, product 1 in either of its versions, so that the two runs
\* can write different rows for the same id.
RaceTrees == {HttpResponse(200, Some(TreeJson(TRUE, <<<<11>>>>)))}
RaceCategories ==
    {HttpResponse(200, Some(CategoryJson(TRUE, <<<<P1>>>>))),
     HttpResponse(200, Some(CategoryJson(TRUE, <<<<P1, P2>>>>)))}
RaceDetails ==
    {HttpResponse(404, None)}
    \cup {HttpResponse(200, Some(j)) : j \in ValidJsons(P1) \cup {FullJson(P2)}}

NextRace == \E r \in Runs : SyncStep(r, RaceTrees, RaceCategories, RaceDetails)

SpecRace == Init /\ [][NextRace]_vars

(***************************************************************************)
(* Properties.                                                             *)
(***************************************************************************)
RunStates == {"idle", "top", "phase1", "phase2", "success", "failed"}

\* The ids of the tuples of a batch.
BatchIds(batch) == {batch[k].id : k \in DOMAIN batch}

\* C1: when the upstream fails the first request of a run (transport error,
\* non-2xx status, a body that is not the expected document), the run ends
\* Failed having written nothing: executemany was never reached, the table
\* holds the rows it held when the run started, and a search finds what it
\* found then.
C1_TopLevelFailureWritesNothing ==
    \A r \in Runs :
        fault[r] = "top" =>
            /\ pc[r] = "failed"
            /\ written[r] = None
            /\ products = start_rows[r]
            /\ \A query \in AppQueries :
                 search_rows(products, query) = search_rows(start_rows[r], query)

\* C1 happens: a run failed at its first request over a table that held rows.
C1_Witness ==
    /\ pc[1] = "failed"
    /\ fault[1] = "top"
    /\ products # EmptyBag

\* C2: sync_database never lets an exception reach its caller: whatever
\* fails (the database at the start, the first request, a subcategory or
\* product request, a validation, the write of Phase 3), the run is in one of
\* its own states and ends Success or Failed.
C2_NeverRaisesToCaller ==
    \A r \in Runs :
        /\ pc[r] \in RunStates
        /\ fault[r] # "" => pc[r] = "failed"

\* C2 happens: the write of Phase 3 failed, and the run ended Failed.
C2_Witness ==
    /\ pc[1] = "failed"
    /\ fault[1] = "persist"
    /\ written[1] # None

\* C3: once the first request succeeded, a subcategory request the upstream
\* fails gives no stub, no task's failure ends the run or its gather, a run
\* in Phase 1 or Phase 2 can always take a step, and the run ends only
\* through Phase 3: executemany is handed the tuples of the details that
\* arrived, none when none did.
C3_FanOutFailuresAbsorbed ==
    \A r \in Runs :
        /\ \A i \in DOMAIN tasks_f1[r] :
             tasks_f1[r][i].st = "done" /\ ~tasks_f1[r][i].good => tasks_f1[r][i].ret = <<>>
        /\ fault[r] # "task"
        /\ pc[r] \in {"phase1", "phase2"} => ENABLED NextSync
        /\ pc[r] \in {"success", "failed"} /\ fault[r] \notin {"db", "top"} =>
             /\ written[r] # None
             /\ Len(written[r][1]) =
                  Cardinality({pid \in DOMAIN tasks_f2[r] : tasks_f2[r][pid].ret # None})

\* C3 happens: of two Phase 1 tasks one failed and gave nothing, and its
\* sibling went on to return its stubs.
C3_Witness ==
    \E i, j \in DOMAIN tasks_f1[1] :
        /\ tasks_f1[1][i].st = "done" /\ ~tasks_f1[1][i].good /\ tasks_f1[1][i].ret = <<>>
        /\ tasks_f1[1][j].st = "done" /\ tasks_f1[1][j].good /\ tasks_f1[1][j].ret # <<>>

\* C4: a Phase 2 task returns a product exactly when the upstream answered
\* 200 with a valid document, and that product is the one asked for; the
\* tuples handed to executemany, and the rows a successful write leaves, are
\* those of exactly these ids.
C4_ValidProductsExact ==
    \A r \in Runs :
        /\ \A pid \in DOMAIN tasks_f2[r] :
             tasks_f2[r][pid].st = "done" =>
                /\ tasks_f2[r][pid].ret # None <=> tasks_f2[r][pid].good
                /\ tasks_f2[r][pid].ret # None => tasks_f2[r][pid].ret[1].id = pid
        /\ written[r] # None =>
             /\ BatchIds(written[r][1]) = {pid \in unique_ids[r] : tasks_f2[r][pid].good}
             /\ Len(written[r][1]) = Cardinality(BatchIds(written[r][1]))
        /\ pc[r] = "success" =>
             \A k \in DOMAIN written[r][1] : BagIn(written[r][1][k], products)

\* C4 happens: of two products one was answered with a valid document and
\* the other was not, and Phase 3 wrote.
C4_Witness ==
    /\ pc[1] = "success"
    /\ unique_ids[1] = ProductIds
    /\ \E pid \in ProductIds : tasks_f2[1][pid].good
    /\ \E pid \in ProductIds : ~tasks_f2[1][pid].good

\* C5: the bulk write is idempotent: the table a batch was written to is
\* the table executemany computes from the table before, and writing the
\* same batch to it once more leaves exactly the same rows.
C5_BulkWriteIdempotent ==
    \A r \in Runs :
        written[r] # None =>
            /\ products = executemany(start_rows[r], written[r][1])
            /\ executemany(products, written[r][1]) = products
            /\ executemany(executemany(start_rows[r], written[r][1]), written[r][1])
                 = executemany(start_rows[r], written[r][1])

\* C5 happens: a batch with two different records of one id was written and
\* changed the table.
C5_Witness ==
    /\ written[1] # None
    /\ products # start_rows[1]
    /\ start_rows[1] # EmptyBag
    /\ \E j, k \in DOMAIN written[1][1] :
         /\ j < k
         /\ written[1][1][j].id = written[1][1][k].id
         /\ written[1][1][j] # written[1][1][k]

\* Position k holds the last record of its id in batch.
LastOfItsId(batch, k) == \A j \in (k + 1)..Len(batch) : batch[j].id # batch[k].id

\* C6: the table holds at most one row per id, and after a bulk write the
\* row of every id of the batch equals the last record of that id column by
\* column (id, ean, display_name, thumbnail, unit_price, share_url), a NULL
\* of the record included: nothing of the row it replaced is left.
C6_OneRowPerIdFullOverwrite ==
    /\ \A x \in BagToSet(products) : CopiesIn(x, products) = 1
    /\ \A x, y \in BagToSet(products) : x.id = y.id => x = y
    /\ \A r \in Runs :
         written[r] # None =>
            \A k \in DOMAIN written[r][1] :
                LastOfItsId(written[r][1], k) =>
                    /\ \E x \in BagToSet(products) : x.id = written[r][1][k].id
                    /\ \A x \in BagToSet(products) :
                         x.id = written[r][1][k].id =>
                            /\ x.ean = written[r][1][k].ean
                            /\ x.display_name = written[r][1][k].display_name
                            /\ x.thumbnail = written[r][1][k].thumbnail
                            /\ x.unit_price = written[r][1][k].unit_price
                            /\ x.share_url = written[r][1][k].share_url

\* C6 happens: a record with no thumbnail was written over a row of the same
\* id that had one.
C6_Witness ==
    /\ written[1] # None
    /\ \E k \in DOMAIN written[1][1] :
         /\ LastOfItsId(written[1][1], k)
         /\ written[1][1][k].thumbnail = None
         /\ \E x \in BagToSet(start_rows[1]) :
              x.id = written[1][1][k].id /\ x.thumbnail # None

\* A step in which run r commits the write of its Phase 3.
Phase3Commits(r) == pc[r] = "phase2" /\ pc'[r] = "success"

\* C7: no step deletes a product row: the set of ids in the table never
\* shrinks, and a row stays as it is through every step except the Phase 3
\* commit of a run that fetched its id successfully; a row whose id the run
\* did not get (absent from the tree, 404, any failed request) keeps the
\* values the last successful fetch wrote.
C7_NoRowDeleted ==
    [][/\ Ids(products) \subseteq Ids(products')
       /\ \A x \in BagToSet(products) :
            \/ BagIn(x, products')
            \/ \E r \in Runs :
                 /\ Phase3Commits(r)
                 /\ x.id \in DOMAIN tasks_f2[r]
                 /\ tasks_f2[r][x.id].good]_vars

\* C7 happens: a run wrote a product and left alone the row of another
\* product, written before, that it did not get.
C7_Witness ==
    /\ pc[1] = "success"
    /\ written[1] # None
    /\ written[1][1] # <<>>
    /\ \E x \in BagToSet(products) :
         /\ x.id \notin BatchIds(written[1][1])
         /\ BagIn(x, start_rows[1])

\* C8: the rows of the table change only in the step that commits the write
\* of Phase 3: starting a run, Phase 1, Phase 2, a failed write, both
\* searches, the cart view and the cart mutations leave them as they are.
C8_OnlyPhase3ChangesRows ==
    [][products' # products => \E r \in Runs : Phase3Commits(r) /\ written'[r] # None]_vars

\* C8 happens: Phase 3 changed the rows of a table that had rows, with an
\* entry in the cart.
C8_Witness ==
    /\ pc[1] = "success"
    /\ start_rows[1] # EmptyBag
    /\ products # start_rows[1]
    /\ DOMAIN cart # {}

\* C9: every entry of the session cart has a quantity of at least 1,
\* whatever adds, updates and deletes were made from the empty cart.
C9_CartQuantitiesPositive ==
    \A pid \in DOMAIN cart : cart[pid] >= 1

\* Two characters are the same letter, whatever their case.
SameLetter(c, d) == c = d \/ {c, d} \in {{"a", "A"}, {"b", "B"}}

\* word occurs in text as a substring, letters compared without case.
IsSubstring(word, text) ==
    \E k \in 0..(Len(text) - Len(word)) :
        \A j \in 1..Len(word) : SameLetter(word[j], text[k + j])

\* The rows a search is said to return: none for a query with no word,
\* else those whose display_name has every word as a substring, or whose ean
\* is the query, or whose id is the query.
SubstringSearch(table, query) ==
    IF search_words(query) = <<>> THEN {}
    ELSE {x \in BagToSet(table) :
            \/ /\ x.display_name # None
               /\ \A k \in DOMAIN search_words(query) :
                    IsSubstring(search_words(query)[k], x.display_name[1])
            \/ x.ean = Some(query)
            \/ x.id = query}

\* C10: a search returns no row for a query with no word, and otherwise
\* exactly the rows for which every word is a case-insensitive substring of
\* display_name, or ean is the raw query, or id is the raw query.
C10_SearchExact ==
    response.kind \in {"buscar", "api_buscar"} =>
        response.rows = SubstringSearch(products, response.query)

\* C11: a query that is exactly a stored row's ean, the ean being one word,
\* finds the row through "ean = ?" in both searches, whether or not a
\* display_name contains it; what is compared with ean is the query as
\* typed, the text the words were split from.
C11_ExactEanLookup ==
    response.kind \in {"buscar", "api_buscar"} =>
        \A x \in BagToSet(products) :
            x.ean = Some(response.query) /\ search_words(response.query) = <<response.query>>
                => x \in response.rows

\* C11 happens: the query was a row's ean, no display_name of the table held
\* it, and the search returned the row.
C11_Witness ==
    /\ response.kind \in {"buscar", "api_buscar"}
    /\ \E x \in response.rows : x.ean = Some(response.query)
    /\ \A x \in BagToSet(products) :
         x.display_name = None \/ ~IsSubstring(response.query, x.display_name[1])

\* C11 as first stated: every query whose only word is a row's ean finds the
\* row, spaces around the word or not.
C11_AnyQueryWithEanAsOnlyWord ==
    response.kind \in {"buscar", "api_buscar"} =>
        \A x \in BagToSet(products) :
            x.ean # None /\ search_words(response.query) = <<x.ean[1]>>
                => x \in response.rows

\* What each price text is worth, in cents.
ExpectedCents(price) ==
    CASE price = None -> 0
      [] price = Some(<<>>) -> 0
      [] price = Some(<<"2", ",", "5">>) -> 250
      [] price = Some(<<"2", ",", "5", "0", " ", "€">>) -> 250
      [] price = Some(<<"0", ".", "0", "5">>) -> 5
      [] price = Some(<<"x">>) -> 0
      [] price = Some(<<"2", ",", "5", ",", "0">>) -> 0
      [] price = Some(<<",", "5">>) -> 50

\* The row of id in the table.
RowOf(table, id) == CHOOSE x \in BagToSet(table) : x.id = id

\* The sum, in cents, of quantity times price over the cart entries pids.
RECURSIVE ExpectedTotal(_)
ExpectedTotal(pids) ==
    IF pids = {} THEN 0
    ELSE LET pid == CHOOSE k \in pids : TRUE
         IN  cart[pid] * ExpectedCents(RowOf(products, pid).unit_price)
               + ExpectedTotal(pids \ {pid})

\* C12: the cart view shows exactly one line per cart entry whose product id
\* is in the table and skips the others; a line carries the entry's
\* quantity and the row's columns, its subtotal is the quantity times the
\* price the unit_price text is worth (0 when missing or not a number), and
\* the total is the sum of the subtotals of the lines shown.
C12_CartView ==
    response.kind = "carrito" =>
        /\ {item.id : item \in response.rows} = DOMAIN cart \cap Ids(products)
        /\ Cardinality(response.rows) = Cardinality(DOMAIN cart \cap Ids(products))
        /\ \A item \in response.rows :
             /\ item.quantity = cart[item.id]
             /\ item.unit_price = RowOf(products, item.id).unit_price
             /\ item.display_name = RowOf(products, item.id).display_name
             /\ item.subtotal =
                  Format2f(FloatTimes(
                      Float(FALSE, ExpectedCents(RowOf(products, item.id).unit_price)),
                      cart[item.id])) \o <<" ", "€">>
        /\ response.total =
             Format2f(FloatOfCents(ExpectedTotal(DOMAIN cart \cap Ids(products))))

\* C12 happens: of two cart entries one has no row and is skipped, the other
\* is two units at "2,50 €", and the total is 5.00.
C12_Witness ==
    /\ response.kind = "carrito"
    /\ Cardinality(DOMAIN cart) = 2
    /\ \E item \in response.rows :
         /\ response.rows = {item}
         /\ item.unit_price = Some(<<"2", ",", "5", "0", " ", "€">>)
         /\ item.quantity = 2
         /\ item.subtotal = <<"5", ".", "0", "0", " ", "€">>
    /\ response.total = <<"5", ".", "0", "0">>

\* C13: when the process starts over an empty or absent store (no
\* database file, or no product row), startup_event starts a sync run; and a
\* run is entered only by startup_event or by the manual trigger.
C13_StartupSyncsEmptyStore ==
    [][/\ ~booted /\ booted' /\ products = EmptyBag =>
            \E r \in Runs : pc'[r] # "idle" /\ caller'[r] = "startup"
       /\ \A r \in Runs :
            pc[r] = "idle" /\ pc'[r] # "idle" => caller'[r] \in {"startup", "manual"}]_vars

EntityKinds == {"read_product", "read_category", "get_product_details",
                "get_category_products"}

\* C14: a single-entity request (the product page, the category page, the
\* JSON product and category endpoints) whose upstream request was answered
\* 404 is answered 404, and one whose upstream request failed in transport or
\* was answered another non-2xx status is answered 500.
C14_NotFoundSurfaced ==
    response.kind \in EntityKinds =>
        /\ ~response.upstream.err /\ response.upstream.status = 404
             => response.status_code = 404
        /\ response.upstream.err \/ response.upstream.status = 500
             => response.status_code = 500

\* The requests of run r the upstream has not answered yet.
Outstanding(r) ==
    (IF pc[r] = "top" THEN 1 ELSE 0)
      + Cardinality({i \in DOMAIN tasks_f1[r] : tasks_f1[r][i].st = "get"})
      + Cardinality({pid \in DOMAIN tasks_f2[r] : tasks_f2[r][pid].st = "get"})

\* C15: the requests of the synchronizer outstanding against the upstream
\* are never more than the limit of 5, a second run started by a manual
\* trigger while the first is in flight included.
C15_OutstandingWithinLimit ==
    Outstanding(1) + Outstanding(2) <= SemaphoreLimit

\* C16: with every request answered or failed within its timeout and the
\* ready tasks run (FairSpecGovernor), a run that is Running reaches Success
\* or Failed and then returns to Idle, with more tasks than slots in both
\* phases; and no task waits for a slot forever.
C16_RunTerminates ==
    /\ (pc[1] \in {"top", "phase1", "phase2"}) ~> (pc[1] \in {"success", "failed"})
    /\ (pc[1] # "idle") ~> (pc[1] = "idle")
    /\ \A i \in DOMAIN GovSubcats :
         (i \in DOMAIN tasks_f1[1] /\ tasks_f1[1][i].st = "wait")
            ~> ~(i \in DOMAIN tasks_f1[1] /\ tasks_f1[1][i].st = "wait")
    /\ \A k \in DOMAIN GovProductIds :
         (GovProductIds[k] \in DOMAIN tasks_f2[1] /\ tasks_f2[1][GovProductIds[k]].st = "wait")
            ~> ~(GovProductIds[k] \in DOMAIN tasks_f2[1]
                   /\ tasks_f2[1][GovProductIds[k]].st = "wait")

\* C16 happens: a run with more product tasks than slots, every one of them
\* failed or not found, has reached Success.
C16_Witness ==
    /\ pc[1] = "success"
    /\ Cardinality(DOMAIN tasks_f2[1]) > SemaphoreLimit
    /\ \A pid \in DOMAIN tasks_f2[1] : ~tasks_f2[1][pid].good

\* C17: the batch of a run is written whole or not at all: once a run has
\* handed its batch to executemany, the table holds every row of the batch
\* (the write was committed) or is the table the run started over (the
\* write failed after some of its tuples and was rolled back); searches and
\* cart views, which read the table between the steps of a run, never find
\* part of a batch.
C17_BatchAtomic ==
    \A r \in Runs :
        written[r] # None =>
            /\ \/ products = start_rows[r]
               \/ \A k \in DOMAIN written[r][1] : BagIn(written[r][1][k], products)
            /\ fault[r] = "persist" => products = start_rows[r]
            /\ pc[r] = "success" =>
                 \A k \in DOMAIN written[r][1] : BagIn(written[r][1][k], products)

\* C17 happens: the write of a batch of two rows failed and the table is as
\* it was, without either.
C17_Witness ==
    /\ fault[1] = "persist"
    /\ written[1] # None
    /\ Len(written[1][1]) = 2
    /\ products = start_rows[1]
    /\ \A k \in DOMAIN written[1][1] : ~BagIn(written[1][1][k], products)

\* The tasks of run r that hold a slot: in their pacing sleep or their GET.
Holding(r) ==
    Cardinality({i \in DOMAIN tasks_f1[r] : tasks_f1[r][i].st \in {"sleep", "get"}})
      + Cardinality({pid \in DOMAIN tasks_f2[r] : tasks_f2[r][pid].st \in {"sleep", "get"}})

\* C18: within a run at most 5 fetch tasks hold a slot, however many were
\* launched together, and Phase 1 and Phase 2 draw on the same semaphore: its
\* free slots are 5 less the tasks of either phase that hold one.
C18_AtMostFiveHoldSlot ==
    \A r \in Runs :
        /\ Holding(r) <= 5
        /\ pc[r] \in {"phase1", "phase2"} => semaphore[r] = SemaphoreLimit - Holding(r)
        /\ semaphore[r] >= 0

\* C18 happens: six product tasks were launched, five hold a slot and the
\* sixth waits.
C18_Witness ==
    /\ pc[1] = "phase2"
    /\ Cardinality(DOMAIN tasks_f2[1]) = 6
    /\ Holding(1) = 5
    /\ \E pid \in DOMAIN tasks_f2[1] : tasks_f2[1][pid].st = "wait"

\* C19: a task gives its slot back however its request ended (a valid
\* answer, 404, another status, a transport error, a document that does not
\* validate): the free slots are always 5 less the tasks inside "async with
\* semaphore", so they are 5 again when a phase has no task left inside, at
\* both barriers and at the end of the run.
C19_SlotsReleased ==
    \A r \in Runs :
        /\ semaphore[r] = SemaphoreLimit - Holding(r)
        /\ (\A i \in DOMAIN tasks_f1[r] : tasks_f1[r][i].st \in {"wait", "done"})
             /\ (\A pid \in DOMAIN tasks_f2[r] : tasks_f2[r][pid].st \in {"wait", "done"})
             => semaphore[r] = 5
        /\ pc[r] \in {"idle", "top", "success", "failed"} => semaphore[r] = 5

\* C19 happens: at the Phase 2 barrier, with one request answered and one
\* failed, every slot is free.
C19_Witness ==
    /\ pc[1] = "phase2"
    /\ \A pid \in DOMAIN tasks_f2[1] : tasks_f2[1][pid].st = "done"
    /\ \E pid \in DOMAIN tasks_f2[1] : tasks_f2[1][pid].good
    /\ \E pid \in DOMAIN tasks_f2[1] : ~tasks_f2[1][pid].good
    /\ semaphore[1] = 5

\* C20: the phases are barriers: a run goes from Phase 1 to Phase 2 only
\* when every Phase 1 task is done, no Phase 2 task exists, let alone has a
\* request out, while the run is in Phase 1, and the batch is handed to
\* executemany only when every Phase 2 task is done.
C20_PhaseBarriers ==
    [][\A r \in Runs :
          /\ pc[r] = "phase1" /\ pc'[r] = "phase2" =>
                \A i \in DOMAIN tasks_f1[r] : tasks_f1[r][i].st = "done"
          /\ pc'[r] = "phase1" => DOMAIN tasks_f2'[r] = {}
          /\ (\E pid \in DOMAIN tasks_f2'[r] : tasks_f2'[r][pid].st = "get") =>
                /\ pc'[r] = "phase2"
                /\ \A i \in DOMAIN tasks_f1'[r] : tasks_f1'[r][i].st = "done"
          /\ written[r] = None /\ written'[r] # None =>
                \A pid \in DOMAIN tasks_f2[r] : tasks_f2[r][pid].st = "done"]_vars

\* C20 happens: after both barriers, a batch of two products was written.
C20_Witness ==
    /\ pc[1] = "success"
    /\ Cardinality(DOMAIN tasks_f2[1]) = 2
    /\ written[1] # None
    /\ Len(written[1][1]) = 2

\* list_of_lists: what the Phase 1 gather returns, one list of stubs per task.
list_of_lists(r) == [i \in DOMAIN tasks_f1[r] |-> tasks_f1[r][i].ret]

RECURSIVE TotalLen(_)
TotalLen(lists) == IF lists = <<>> THEN 0 ELSE Len(Head(lists)) + TotalLen(Tail(lists))

\* C21: when the Phase 1 gather returns, the unique ids are the ids of the
\* stubs of the subcategory fetches that succeeded, each once however many
\* subcategories embed it, so no more of them than stubs were collected;
\* Phase 2 has one task per such id, each task issues its request once, and
\* the batch is built when each has.
C21_UniqueIdsExact ==
    [][\A r \in Runs :
          /\ pc[r] = "phase1" /\ pc'[r] = "phase2" =>
                /\ unique_ids'[r] =
                      {pid \in ProductIds :
                          \E i \in DOMAIN tasks_f1[r] :
                              /\ tasks_f1[r][i].good
                              /\ \E k \in DOMAIN tasks_f1[r][i].ret :
                                    tasks_f1[r][i].ret[k] = pid}
                /\ Cardinality(unique_ids'[r]) <= TotalLen(list_of_lists(r))
                /\ DOMAIN tasks_f2'[r] = unique_ids'[r]
                /\ \A pid \in unique_ids'[r] : tasks_f2'[r][pid] = NewTask
          /\ pc[r] = "phase2" =>
                /\ unique_ids'[r] \in {unique_ids[r], {}}
                /\ pc'[r] = "phase2" => DOMAIN tasks_f2'[r] = unique_ids[r]
                /\ \A pid \in DOMAIN tasks_f2[r] :
                      \* the request goes out in one step, from the sleep
                      /\ tasks_f2[r][pid].st # "get" /\ pc'[r] = "phase2"
                            /\ tasks_f2'[r][pid].st = "get" => tasks_f2[r][pid].st = "sleep"
                      \* and never a second time
                      /\ tasks_f2[r][pid].st = "done" /\ pid \in DOMAIN tasks_f2'[r] =>
                            tasks_f2'[r][pid].st = "done"
                      /\ tasks_f2[r][pid].st = "get" /\ pid \in DOMAIN tasks_f2'[r] =>
                            tasks_f2'[r][pid].st \in {"get", "done"}
          /\ written[r] = None /\ written'[r] # None /\ pc[r] = "phase2" =>
                \A pid \in unique_ids[r] : tasks_f2[r][pid].st = "done"]_vars

\* C21 happens: the Phase 1 gather is about to return over the lists of
\* two subcategories that both embed product 1, one of them twice: three
\* stubs or more, and fewer ids.
C21_Witness ==
    /\ pc[1] = "phase1"
    /\ Len(tasks_f1[1]) = 2
    /\ gather(tasks_f1[1])
    /\ \A i \in 1..2 : tasks_f1[1][i].good /\ P1 \in {tasks_f1[1][i].ret[k] : k \in DOMAIN tasks_f1[1][i].ret}
    /\ TotalLen(list_of_lists(1)) >= 3
    /\ Cardinality(UNION {{tasks_f1[1][i].ret[k] : k \in DOMAIN tasks_f1[1][i].ret} : i \in 1..2}) < 3

\* The table a successful run leaves, from the table it started over and
\* what its Phase 2 tasks returned, whatever their order: the rows whose id
\* no returned product has, and one row per returned product.
StoreAfter(before, detailed) ==
    LET new_rows == {data_tuples(<<detailed[pid][1]>>)[1] :
                        pid \in {q \in DOMAIN detailed : detailed[q] # None}}
        kept == {x \in BagToSet(before) : \A y \in new_rows : y.id # x.id}
    IN  [x \in kept |-> before[x]] (+) SetToBag(new_rows)

\* C22: in a single run the unique ids are a function of what the Phase 1
\* tasks returned, position by position, and the table after Phase 3 is a
\* function of the table the run started over and of what the Phase 2 tasks
\* returned, id by id: whichever order list({...}) gave the ids, and
\* whichever order the tasks took their slots and completed in, the write
\* leaves the same rows.
C22_OutcomeDeterminesStore ==
    [][\A r \in Runs :
          /\ pc[r] = "phase1" /\ pc'[r] = "phase2" =>
                unique_ids'[r] =
                    UNION {{list_of_lists(r)[i][k] : k \in DOMAIN list_of_lists(r)[i]} :
                              i \in DOMAIN list_of_lists(r)}
          /\ pc[r] = "phase2" /\ pc'[r] = "success" =>
                /\ products' = StoreAfter(start_rows[r], detailed_products(r))
                /\ \A order \in Orders(unique_ids[r]) :
                      products' = executemany(products,
                                      data_tuples(valid_products(order, detailed_products(r))))]_vars

\* C22 happens: a run that started over a table holding one version of
\* product 1 wrote two products, the other version of product 1 among
\* them; the two orders of the ids are two orders of the write.
C22_Witness ==
    /\ pc[1] = "success"
    /\ Cardinality(unique_ids[1]) = 2
    /\ Len(written[1][1]) = 2
    /\ \E x \in BagToSet(start_rows[1]) :
          x.id = P1 /\ ~BagIn(x, products) /\ \E y \in BagToSet(products) : y.id = P1

\* The positions of the Phase 1 tasks of run r whose request has gone out.
Requested(r) == {i \in DOMAIN tasks_f1[r] : tasks_f1[r][i].st \in {"get", "done"}}

\* C23: in one run every leaf subcategory id of the tree is requested
\* exactly once in Phase 1: when the gather returns every id of the list
\* has been requested, and no two requests of the run, made or in flight,
\* are for the same subcategory id, under however many main categories the
\* tree lists it.
C23_EachSubcategoryRequestedOnce ==
    \A r \in Runs :
        /\ pc[r] = "phase1" /\ gather(tasks_f1[r]) =>
              Requested(r) = DOMAIN all_subcategory_ids[r]
        /\ \A i, j \in Requested(r) :
              all_subcategory_ids[r][i] = all_subcategory_ids[r][j] => i = j

\* C24: nothing keeps two runs apart: a trigger starts a run whatever the
\* other run is doing, each run that reaches Phase 3 writes the batch of its
\* own Phase 2 results, and a commit leaves, for every id of its batch, that
\* run's row and no other, whatever an earlier run wrote for the id, while
\* the rows of the other ids stay: an id written by both runs holds the row
\* of the run that committed last.
C24_LastCommitWins ==
    [][\A r \in Runs :
          /\ pc[r] = "idle" => ENABLED update_db_endpoint(r, TRUE)
          /\ pc[r] = "phase2" /\ pc'[r] = "success" =>
                /\ BatchIds(written'[r][1]) =
                      {pid \in unique_ids[r] : tasks_f2[r][pid].ret # None}
                /\ \A k \in DOMAIN written'[r][1] :
                      \A x \in BagToSet(products') :
                          x.id = written'[r][1][k].id =>
                              x = written'[r][1][k] /\ CopiesIn(x, products') = 1
                /\ \A k \in DOMAIN written'[r][1] : BagIn(written'[r][1][k], products')
                /\ \A x \in BagToSet(products) :
                      x.id \notin BatchIds(written'[r][1]) =>
                          CopiesIn(x, products') = CopiesIn(x, products)]_vars

\* C24 happens: both runs were Running at once and both have committed,
\* each a different row for product 1; the table holds one of the two.
C24_Witness ==
    /\ pc[1] = "success" /\ pc[2] = "success"
    /\ start_rows[1] = EmptyBag /\ start_rows[2] = EmptyBag
    /\ \E k \in DOMAIN written[1][1], l \in DOMAIN written[2][1] :
          /\ written[1][1][k].id = P1 /\ written[2][1][l].id = P1
          /\ written[1][1][k] # written[2][1][l]
          /\ BagIn(written[2][1][l], products)
          /\ ~BagIn(written[1][1][k], products)

\* Every entry of c but that of pid is in c2 with its quantity, and c2 has
\* no entry c had not, but perhaps that of pid.
OthersKept(c, c2, pid) ==
    /\ DOMAIN c \ {pid} = DOMAIN c2 \ {pid}
    /\ \A k \in DOMAIN c \ {pid} : c2[k] = c[k]

\* The cart requests of the session: ids, quantities, action values.
CartActions == {"update", "delete", "other"}
CartQuantities == (-1)..MaxQty

\* C25: a cart mutation changes the entry of the named id only.  From any
\* cart the session reaches: add leaves the id with the given quantity when
\* it was absent and with the sum when it was present; update with a
\* quantity above 0 on a present id sets the quantity, update with 0 or
\* less on a present id and delete on a present id remove the entry;
\* update and delete on an absent id, and any other action value, leave the
\* cart as it was; every other entry keeps its quantity.  And the cart
\* changes in no step but one of these requests.
C25_CartFrame ==
    [][/\ \A pid \in ProductIds, quantity \in CartQuantities :
             LET c2 == cart_after_add(cart, pid, quantity)
             IN  /\ OthersKept(cart, c2, pid)
                 /\ pid \in DOMAIN c2
                 /\ c2[pid] = IF pid \in DOMAIN cart THEN cart[pid] + quantity ELSE quantity
       /\ \A pid \in ProductIds, quantity \in CartQuantities, action \in CartActions :
             LET c2 == cart_after_update(cart, pid, quantity, action)
             IN  /\ OthersKept(cart, c2, pid)
                 /\ pid \notin DOMAIN cart \/ action \notin {"update", "delete"} => c2 = cart
                 /\ pid \in DOMAIN cart /\ action = "update" /\ quantity > 0 =>
                       pid \in DOMAIN c2 /\ c2[pid] = quantity
                 /\ pid \in DOMAIN cart /\ action = "update" /\ quantity <= 0 =>
                       pid \notin DOMAIN c2
                 /\ pid \in DOMAIN cart /\ action = "delete" => pid \notin DOMAIN c2
       /\ cart' # cart =>
             /\ response' = RedirectResponse
             /\ \E pid \in ProductIds, quantity \in CartQuantities :
                   \/ cart' = cart_after_add(cart, pid, quantity)
                   \/ \E action \in CartActions :
                         cart' = cart_after_update(cart, pid, quantity, action)
             /\ \E pid \in ProductIds : OthersKept(cart, cart', pid)]_vars

\* C25 happens: a cart request was just answered over a cart of two
\* entries, one of which was added to or set after it was created.
C25_Witness ==
    /\ response = RedirectResponse
    /\ DOMAIN cart = ProductIds
    /\ cart[P1] = 2
    /\ cart[P2] = 1

=============================================================================
